---- MODULE Spec2Model ----
(***************************************************************************)
(* The diet-tracking HTTP backend of backend/main.py as a state machine.   *)
(*                                                                         *)
(* State: the three stores the handlers reach through the process-wide     *)
(* client (the profiles table, the weight_logs table, the avatars bucket), *)
(* the wall clock, the requests in flight between two client calls, and    *)
(* the response a handler has just returned.                               *)
(*                                                                         *)
(* Strings are sequences of lexemes (<<"Bearer", " ", "tokA">>), so that   *)
(* str.split, f-string concatenation and date parsing are computed and     *)
(* not assumed.  Python's 0-based pieces[k] is TLA+'s pieces[k + 1].       *)
(***************************************************************************)
EXTENDS Integers, Sequences, FiniteSets, TLC

VARIABLES
    profiles,     \* rows of table 'profiles'
    weight_logs,  \* rows of table 'weight_logs'
    avatars,      \* objects of bucket 'avatars'
    clock,        \* the day date.today() / datetime.utcnow() reads
    pc,           \* per worker: where its request stands
    local,        \* per worker: the locals of the handler in flight
    resp,         \* the response just returned, until it is sent
    applied,      \* history: per (user_id, log_date) the weight last upserted
    writers,      \* history: per (user_id, log_date) the callers that wrote it
    lastUpload    \* history: per user id the object path last uploaded

vars == <<profiles, weight_logs, avatars, clock, pc, local, resp,
          applied, writers, lastUpload>>

----------------------------------------------------------------------------
(* Bounds *)

\* the clock runs over the days 1..MaxClock
MaxClock == 3

----------------------------------------------------------------------------
(* Values *)

\* Python None, distinct from every string the model draws
None == <<"<None>">>

\* not bool(s), for s a string or None
Falsy(s) == s = None \/ s = <<>>

Days == 1 .. MaxClock

\* the two gunicorn workers the model lets run concurrently
Workers == {"w1", "w2"}

\* str.split(sep): the pieces of s between the occurrences of sep
RECURSIVE Split(_, _)
Split(s, sep) ==
    IF \A i \in 1 .. Len(s) : s[i] # sep
    THEN <<s>>
    ELSE LET i == CHOOSE k \in 1 .. Len(s) :
                      s[k] = sep /\ \A j \in 1 .. (k - 1) : s[j] # sep
         IN  <<SubSeq(s, 1, i - 1)>> \o Split(SubSeq(s, i + 1, Len(s)), sep)

----------------------------------------------------------------------------
(* The identity provider behind client.auth *)

NoUser == [id |-> None, email |-> None]

Ann == [id |-> <<"u1">>, email |-> <<"ann", "@", "x.org">>]
Bob == [id |-> <<"u2">>, email |-> <<"bob", "@", "y", "@", "z">>]

Identities == {Ann, Bob}
UserIds == {u.id : u \in Identities}

\* client.auth.get_user(token): the identity a live token belongs to
get_user(token) ==
    IF token = <<"tokA">> THEN Ann
    ELSE IF token = <<"tokB">> THEN Bob
    ELSE NoUser

\* the dict the handlers receive as current_user
serialize_user(user) ==
    IF user = NoUser THEN NoUser
    ELSE [id |-> user.id, email |-> user.email]

\* a header value; present = FALSE is a request without the header
Hdr(text) == [present |-> TRUE, text |-> text]
NoHeader == [present |-> FALSE, text |-> <<>>]

----------------------------------------------------------------------------
(* Dates and numbers as the request carries them *)

\* a date string: "2024-01-05" (padded), "2024-1-5", or text that is no date
DateStr(d) == [kind |-> "date", d |-> d, padded |-> TRUE]
ShortDateStr(d) == [kind |-> "date", d |-> d, padded |-> FALSE]
BadDateStr == [kind |-> "bad", d |-> 0, padded |-> FALSE]
EmptyStr == [kind |-> "empty", d |-> 0, padded |-> FALSE]
Absent == [kind |-> "absent", d |-> 0, padded |-> FALSE]

\* datetime.strptime(s, "%Y-%m-%d").date(): ok = FALSE is the ValueError
strptime(s) ==
    IF s.kind = "date" THEN [ok |-> TRUE, d |-> s.d]
    ELSE [ok |-> FALSE, d |-> 0]

\* date.isoformat(): always zero-padded
isoformat(d) == DateStr(d)

\* a JSON value of the key "weight"; numbers are drawn from the integers,
\* which the comparisons of log_weight treat as they treat fractions
Num(n) == [kind |-> "num", val |-> n]
NaNLit == [kind |-> "nan", val |-> 0]
Text == [kind |-> "text", val |-> 0]
Missing == [kind |-> "missing", val |-> 0]

\* float(data["weight"]): ok = FALSE is the KeyError / ValueError
float(w) ==
    IF w.kind = "num" THEN [ok |-> TRUE, nan |-> FALSE, val |-> w.val]
    ELSE IF w.kind = "nan" THEN [ok |-> TRUE, nan |-> TRUE, val |-> 0]
    ELSE [ok |-> FALSE, nan |-> FALSE, val |-> 0]

\* the range check with both comparisons strict
OutOfRangeStrict(w) == ~w.nan /\ (w.val < 0 \/ w.val > 1000)

\* weight <= 0 or weight >= 1000 (every comparison with NaN is False)
OutOfRange(w) == ~w.nan /\ (w.val <= 0 \/ w.val >= 1000)

----------------------------------------------------------------------------
(* Responses *)
(*                                                                         *)
(* A handler runs from one call of the client to the next in one step: the *)
(* code between two calls reads and writes the handler's locals only.      *)
(* Every call on a table or the bucket may raise (ok = FALSE), which the   *)
(* handler's except clause turns into a 500.  resp is read by no handler;  *)
(* it is sent before a handler takes its next step, so that it describes   *)
(* the stores as the handler that returned it left them.                   *)

NoResp == [route |-> "none"]
NoLocal == [route |-> "none"]

\* return jsonify(body), status
Reply(route, req, caller, status, body, calls, faulted) ==
    [route |-> route, req |-> req, caller |-> caller, status |-> status,
     body |-> body, calls |-> calls, faulted |-> faulted]

\* the handler of worker w returns r; nothing else changes
Return(w, r) ==
    /\ resp' = r
    /\ pc' = [pc EXCEPT ![w] = "idle"]
    /\ local' = [local EXCEPT ![w] = NoLocal]

\* the handler of worker w goes on to its next client call
Goto(w, label, loc) ==
    /\ resp' = resp
    /\ pc' = [pc EXCEPT ![w] = label]
    /\ local' = [local EXCEPT ![w] = loc]

----------------------------------------------------------------------------
(* require_auth *)

\* the decorator up to the call of f: ok, or the 401 it returns
require_auth(h) ==
    IF ~h.present \/ Falsy(h.text)
    THEN [ok |-> FALSE, user |-> NoUser, calls |-> {}]
    ELSE LET parts == Split(h.text, " ")
         IN  IF Len(parts) < 2
             THEN [ok |-> FALSE, user |-> NoUser, calls |-> {}]
             ELSE LET user == get_user(parts[2])
                  IN  [ok |-> user # NoUser,
                       user |-> serialize_user(user),
                       calls |-> {"auth.get_user"}]

----------------------------------------------------------------------------
(* The weight_logs table *)

\* the date a date column holds for the string it is sent
PgDate(s) == strptime(s)

SameKey(x, y) == x.user_id = y.user_id /\ x.log_date = y.log_date

\* an upsert without its on_conflict: a plain insert
UpsertAsInsert(rows, row) == rows \cup {row}

\* .upsert(row, on_conflict='user_id,log_date')
Upsert(rows, row) == {x \in rows : ~SameKey(x, row)} \cup {row}

\* the dict with the user_id of the request body when it names one
WeightDataFromBody(current_user, data, weight, log_date) ==
    [user_id |-> IF data.user_id = None THEN current_user.id ELSE data.user_id,
     weight |-> weight.val, log_date |-> isoformat(log_date)]

\* the dict log_weight sends to the table
WeightData(current_user, data, weight, log_date) ==
    [user_id |-> current_user.id, weight |-> weight.val,
     log_date |-> isoformat(log_date)]

\* the row the table keeps for a dict
WeightRow(data) ==
    [user_id |-> data.user_id, weight |-> data.weight,
     log_date |-> PgDate(data.log_date).d]

\* .eq('user_id', user_id)
EqUser(rows, user_id) == {x \in rows : x.user_id = user_id}

\* .gte('log_date', start_date), applied if start_date is truthy
GteDate(rows, start_date) ==
    IF start_date.kind \in {"absent", "empty"} THEN rows
    ELSE {x \in rows : x.log_date >= PgDate(start_date).d}

\* the upper bound as .lt: exclusive
LteDateExclusive(rows, end_date) ==
    IF end_date.kind \in {"absent", "empty"} THEN rows
    ELSE {x \in rows : x.log_date < PgDate(end_date).d}

\* .lte('log_date', end_date), applied if end_date is truthy
LteDate(rows, end_date) ==
    IF end_date.kind \in {"absent", "empty"} THEN rows
    ELSE {x \in rows : x.log_date <= PgDate(end_date).d}

\* .order('log_date', desc=True)
RECURSIVE OrderDesc(_)
OrderDesc(rows) ==
    IF rows = {} THEN <<>>
    ELSE LET top == CHOOSE x \in rows : \A y \in rows : y.log_date <= x.log_date
         IN  <<top>> \o OrderDesc(rows \ {top})

\* the filter string is one the table can compare a date with
Comparable(s) == s.kind \in {"absent", "empty"} \/ PgDate(s).ok

----------------------------------------------------------------------------
(* POST /api/weight *)

\* log_weight up to the upsert: authentication, parsing, validation
LogWeight(w, req) ==
    /\ pc[w] = "idle" /\ resp = NoResp
    /\ LET auth == require_auth(req.header)
           weight == float(req.weight)
           text == IF req.log_date.kind = "absent" THEN isoformat(clock)
                   ELSE req.log_date
           log_date == strptime(text)
       IN  IF ~auth.ok
           THEN Return(w, Reply("log_weight", req, None, 401, None, auth.calls, FALSE))
           ELSE IF ~weight.ok \/ ~log_date.ok
           THEN Return(w, Reply("log_weight", req, auth.user.id, 500, None,
                                auth.calls, FALSE))
           ELSE IF OutOfRange(weight)
           THEN Return(w, Reply("log_weight", req, auth.user.id, 400, None,
                                auth.calls, FALSE))
           ELSE Goto(w, "lw_upsert",
                     [route |-> "log_weight", req |-> req, caller |-> auth.user.id,
                      nan |-> weight.nan,
                      data |-> WeightData(auth.user, req, weight, log_date.d),
                      calls |-> auth.calls])
    /\ UNCHANGED <<profiles, weight_logs, avatars, clock, applied, writers, lastUpload>>

\* the upsert of log_weight and its response; ~ok is the client raising
LogWeightUpsert(w, ok) ==
    /\ pc[w] = "lw_upsert" /\ resp = NoResp
    /\ LET l == local[w]
           row == WeightRow(l.data)
           key == <<row.user_id, row.log_date>>
           calls == l.calls \cup {"weight_logs.upsert"}
       IN  IF ~ok \/ l.nan
           THEN /\ Return(w, Reply("log_weight", l.req, l.caller, 500, None, calls, ~ok))
                /\ UNCHANGED <<weight_logs, applied, writers>>
           ELSE /\ weight_logs' = Upsert(weight_logs, row)
                /\ applied' = [applied EXCEPT ![key] = row.weight]
                /\ writers' = [writers EXCEPT ![key] = @ \cup {l.caller}]
                /\ Return(w, Reply("log_weight", l.req, l.caller, 200, row, calls, FALSE)
                                @@ [replaced |-> {x \in weight_logs : SameKey(x, row)}])
    /\ UNCHANGED <<profiles, avatars, clock, lastUpload>>

----------------------------------------------------------------------------
(* GET /api/weight/<user_id> *)

GetWeightLogs(w, req, ok) ==
    /\ pc[w] = "idle" /\ resp = NoResp
    /\ LET auth == require_auth(req.header)
           calls == auth.calls \cup {"weight_logs.select"}
           rows == LteDate(GteDate(EqUser(weight_logs, req.user_id),
                                   req.start_date), req.end_date)
       IN  IF ~auth.ok
           THEN Return(w, Reply("get_weight_logs", req, None, 401, None, auth.calls, FALSE))
           ELSE IF ~ok \/ ~Comparable(req.start_date) \/ ~Comparable(req.end_date)
           THEN Return(w, Reply("get_weight_logs", req, auth.user.id, 500, None, calls, ~ok))
           ELSE Return(w, Reply("get_weight_logs", req, auth.user.id, 200,
                                OrderDesc(rows), calls, FALSE))
    /\ UNCHANGED <<profiles, weight_logs, avatars, clock, applied, writers, lastUpload>>

----------------------------------------------------------------------------
(* The profiles table and the avatars bucket *)

\* .select("*").eq('id', user_id)
EqId(rows, user_id) == {x \in rows : x.id = user_id}

\* the primary key of profiles: .insert raises on an id the table holds
Conflicts(rows, row) == EqId(rows, row.id) # {}

\* .insert(data)
Insert(rows, row) == rows \cup {row}

\* the dict get_profile inserts when the select found nothing
NewProfile(user_id, current_user, now) ==
    [id |-> user_id,
     email |-> current_user.email,
     username |-> Split(current_user.email, "@")[1],
     full_name |-> <<>>,
     avatar_url |-> None,
     updated_at |-> now]

\* .upsert(profile_data) of update_profile: the row with the dict's id takes
\* the dict's columns and keeps its email; a new row has no email
UpsertProfile(rows, data) ==
    LET old == EqId(rows, data.id)
        email == IF old = {} THEN None ELSE (CHOOSE x \in old : TRUE).email
    IN  (rows \ old) \cup {[id |-> data.id, email |-> email,
                              username |-> data.username,
                              full_name |-> data.full_name,
                              avatar_url |-> data.avatar_url,
                              updated_at |-> data.updated_at]}

\* .update(profile_data).eq('id', user_id) of upload_avatar
UpdateAvatar(rows, user_id, public_url, now) ==
    {IF x.id = user_id
     THEN [x EXCEPT !.avatar_url = public_url, !.updated_at = now]
     ELSE x : x \in rows}

\* the ownership check left out
NeverForeign(user_id, current_user) == FALSE

\* user_id != current_user['id']
NotOwner(user_id, current_user) == user_id # current_user.id

\* update_profile with the ownership check of its siblings
UpdateOwnerOnly(user_id, current_user) == user_id # current_user.id

\* what update_profile checks of its caller: nothing
UpdateForbidden(user_id, current_user) == FALSE

\* a multipart file part; NoFile is a request without the field 'file'
File(content_type) == [given |-> TRUE, filename |-> <<"a">>, content_type |-> content_type]
NoFile == [given |-> FALSE, filename |-> <<>>, content_type |-> None]
UnnamedFile == [given |-> TRUE, filename |-> <<>>, content_type |-> <<"image/png">>]

allowed_types == {<<"image/jpeg">>, <<"image/png">>, <<"image/jpg">>}

\* file.content_type or "image/jpeg"
ContentType(file) ==
    IF Falsy(file.content_type) THEN <<"image/jpeg">> ELSE file.content_type

\* the type check letting every image/* through
TypeRejectedLax(content_type) ==
    content_type \notin allowed_types \cup {<<"image/gif">>}

\* content_type not in allowed_types
TypeRejected(content_type) == content_type \notin allowed_types

\* ext_map.get(content_type, ".jpg")
file_ext(content_type) ==
    IF content_type = <<"image/png">> THEN <<".png">> ELSE <<".jpg">>

\* f"{user_id}{file_ext}"
FileName(user_id, content_type) == user_id \o file_ext(content_type)

\* client.storage.from_('avatars').get_public_url(file_name)
get_public_url(file_name) ==
    <<"https://esffhaizaxsrnaoezssb.supabase.co",
      "/storage/v1/object/public/avatars/">> \o file_name

\* .upload(path, file, {"upsert": True}): the object at path is replaced
Upload(objects, path, content_type) ==
    {o \in objects : o.path # path} \cup {[path |-> path, content_type |-> content_type]}

----------------------------------------------------------------------------
(* GET /api/profile/<user_id> *)

\* get_profile up to and including the select
GetProfile(w, req, ok) ==
    /\ pc[w] = "idle" /\ resp = NoResp
    /\ LET auth == require_auth(req.header)
           calls == auth.calls \cup {"profiles.select"}
           found == EqId(profiles, req.user_id)
       IN  IF ~auth.ok
           THEN Return(w, Reply("get_profile", req, None, 401, None, auth.calls, FALSE))
           ELSE IF NotOwner(req.user_id, auth.user)
           THEN Return(w, Reply("get_profile", req, auth.user.id, 403, None,
                                auth.calls, FALSE))
           ELSE IF ~ok \/ Cardinality(found) > 1
           THEN Return(w, Reply("get_profile", req, auth.user.id, 500, None, calls, ~ok))
           ELSE IF found # {}
           THEN Return(w, Reply("get_profile", req, auth.user.id, 200,
                                [(CHOOSE x \in found : TRUE) EXCEPT !.email = auth.user.email],
                                calls, FALSE))
           ELSE Goto(w, "gp_insert",
                     [route |-> "get_profile", req |-> req, caller |-> auth.user.id,
                      current_user |-> auth.user, calls |-> calls])
    /\ UNCHANGED <<profiles, weight_logs, avatars, clock, applied, writers, lastUpload>>

\* the insert of get_profile and its response
GetProfileInsert(w, ok) ==
    /\ pc[w] = "gp_insert" /\ resp = NoResp
    /\ LET l == local[w]
           data == NewProfile(l.req.user_id, l.current_user, clock)
           calls == l.calls \cup {"profiles.insert"}
       IN  IF ~ok \/ Conflicts(profiles, data)
           THEN /\ Return(w, Reply("get_profile", l.req, l.caller, 500, None, calls, ~ok))
                /\ UNCHANGED profiles
           ELSE /\ profiles' = Insert(profiles, data)
                /\ Return(w, Reply("get_profile", l.req, l.caller, 200,
                                   [data EXCEPT !.email = l.current_user.email],
                                   calls, FALSE))
    /\ UNCHANGED <<weight_logs, avatars, clock, applied, writers, lastUpload>>

----------------------------------------------------------------------------
(* PUT /api/profile/<user_id> *)

UpdateProfile(w, req, ok) ==
    /\ pc[w] = "idle" /\ resp = NoResp
    /\ LET auth == require_auth(req.header)
           calls == auth.calls \cup {"profiles.upsert"}
           profile_data == [id |-> req.user_id, username |-> req.username,
                            full_name |-> req.full_name,
                            avatar_url |-> req.avatar_url, updated_at |-> clock]
           rows == UpsertProfile(profiles, profile_data)
       IN  IF ~auth.ok
           THEN /\ Return(w, Reply("update_profile", req, None, 401, None, auth.calls, FALSE))
                /\ UNCHANGED profiles
           ELSE IF UpdateForbidden(req.user_id, auth.user)
           THEN /\ Return(w, Reply("update_profile", req, auth.user.id, 403, None,
                                   auth.calls, FALSE))
                /\ UNCHANGED profiles
           ELSE IF ~ok
           THEN /\ Return(w, Reply("update_profile", req, auth.user.id, 500, None,
                                   calls, TRUE))
                /\ UNCHANGED profiles
           ELSE /\ profiles' = rows
                /\ Return(w, Reply("update_profile", req, auth.user.id, 200,
                                   EqId(rows, req.user_id), calls, FALSE))
    /\ UNCHANGED <<weight_logs, avatars, clock, applied, writers, lastUpload>>

----------------------------------------------------------------------------
(* POST /api/profile/<user_id>/avatar *)

\* upload_avatar up to and including the upload of the object
UploadAvatar(w, req, ok) ==
    /\ pc[w] = "idle" /\ resp = NoResp
    /\ LET auth == require_auth(req.header)
           calls == auth.calls \cup {"avatars.upload"}
           content_type == ContentType(req.file)
           file_name == FileName(req.user_id, content_type)
       IN  IF ~auth.ok
           THEN /\ Return(w, Reply("upload_avatar", req, None, 401, None, auth.calls, FALSE))
                /\ UNCHANGED <<avatars, lastUpload>>
           ELSE IF NotOwner(req.user_id, auth.user)
           THEN /\ Return(w, Reply("upload_avatar", req, auth.user.id, 403, None,
                                   auth.calls, FALSE))
                /\ UNCHANGED <<avatars, lastUpload>>
           ELSE IF ~req.file.given \/ Falsy(req.file.filename)
                   \/ TypeRejected(content_type)
           THEN /\ Return(w, Reply("upload_avatar", req, auth.user.id, 400, None,
                                   auth.calls, FALSE))
                /\ UNCHANGED <<avatars, lastUpload>>
           ELSE IF ~ok
           THEN /\ Return(w, Reply("upload_avatar", req, auth.user.id, 500, None,
                                   calls, TRUE))
                /\ UNCHANGED <<avatars, lastUpload>>
           ELSE /\ avatars' = Upload(avatars, file_name, content_type)
                /\ lastUpload' = [lastUpload EXCEPT ![req.user_id] = file_name]
                /\ Goto(w, "ua_update",
                        [route |-> "upload_avatar", req |-> req, caller |-> auth.user.id,
                         file_name |-> file_name, calls |-> calls])
    /\ UNCHANGED <<profiles, weight_logs, clock, applied, writers>>

\* the profile update of upload_avatar and its response
UploadAvatarUpdate(w, ok) ==
    /\ pc[w] = "ua_update" /\ resp = NoResp
    /\ LET l == local[w]
           public_url == get_public_url(l.file_name)
           calls == l.calls \cup {"profiles.update"}
       IN  IF ~ok \/ EqId(profiles, l.req.user_id) = {}
           THEN /\ Return(w, Reply("upload_avatar", l.req, l.caller, 500, None, calls, ~ok))
                /\ UNCHANGED profiles
           ELSE /\ profiles' = UpdateAvatar(profiles, l.req.user_id, public_url, clock)
                /\ Return(w, Reply("upload_avatar", l.req, l.caller, 200,
                                   [avatar_url |-> public_url], calls, FALSE))
    /\ UNCHANGED <<weight_logs, avatars, clock, applied, writers, lastUpload>>

----------------------------------------------------------------------------
(* GET /api/users *)

\* .eq('log_date', target_date)
EqDate(rows, target_date) == {x \in rows : x.log_date = PgDate(target_date).d}

\* the profile as get_users returns it: with the weight of the target date
\* attached when weights_map holds the profile's id
WithWeight(profile, weights, target_date) ==
    LET mine == {x \in weights : x.user_id = profile.id}
    IN  IF mine = {} THEN [profile |-> profile, weight_logs |-> <<>>]
        ELSE [profile |-> profile,
              weight_logs |-> <<[weight |-> (CHOOSE x \in mine : TRUE).weight,
                                 log_date |-> target_date]>>]

\* get_users up to and including the select of all profiles; the rows of a
\* select without an order come in no defined order and are kept as a set
GetUsers(w, req, ok) ==
    /\ pc[w] = "idle" /\ resp = NoResp
    /\ LET auth == require_auth(req.header)
           calls == auth.calls \cup {"profiles.select"}
           target_date == IF req.date.kind \in {"absent", "empty"}
                          THEN isoformat(clock) ELSE req.date
       IN  IF ~auth.ok
           THEN Return(w, Reply("get_users", req, None, 401, None, auth.calls, FALSE))
           ELSE IF ~ok
           THEN Return(w, Reply("get_users", req, auth.user.id, 500, None, calls, TRUE))
           ELSE IF profiles = {}
           THEN Return(w, Reply("get_users", req, auth.user.id, 200, {}, calls, FALSE))
           ELSE Goto(w, "gu_weights",
                     [route |-> "get_users", req |-> req, caller |-> auth.user.id,
                      target_date |-> target_date, rows |-> profiles, calls |-> calls])
    /\ UNCHANGED <<profiles, weight_logs, avatars, clock, applied, writers, lastUpload>>

\* the select of the day's weights, the join and the response
GetUsersWeights(w, ok) ==
    /\ pc[w] = "gu_weights" /\ resp = NoResp
    /\ LET l == local[w]
           calls == l.calls \cup {"weight_logs.select"}
       IN  IF ~ok \/ ~PgDate(l.target_date).ok
           THEN Return(w, Reply("get_users", l.req, l.caller, 500, None, calls, ~ok))
           ELSE Return(w, Reply("get_users", l.req, l.caller, 200,
                                {WithWeight(x, EqDate(weight_logs, l.target_date),
                                            l.target_date) : x \in l.rows},
                                calls, FALSE))
    /\ UNCHANGED <<profiles, weight_logs, avatars, clock, applied, writers, lastUpload>>

----------------------------------------------------------------------------
(* The environment *)

\* a day passes
Tick ==
    /\ clock < MaxClock
    /\ clock' = clock + 1
    /\ UNCHANGED <<profiles, weight_logs, avatars, pc, local, resp,
                   applied, writers, lastUpload>>

\* the response is sent to the client
Send ==
    /\ resp # NoResp
    /\ resp' = NoResp
    /\ UNCHANGED <<profiles, weight_logs, avatars, clock, pc, local,
                   applied, writers, lastUpload>>

Init ==
    /\ profiles = {}
    /\ weight_logs = {}
    /\ avatars = {}
    /\ clock = 1
    /\ pc = [w \in Workers |-> "idle"]
    /\ local = [w \in Workers |-> NoLocal]
    /\ resp = NoResp
    /\ applied = [k \in UserIds \X Days |-> 0]
    /\ writers = [k \in UserIds \X Days |-> {}]
    /\ lastUpload = [u \in UserIds |-> None]

----------------------------------------------------------------------------
(* Requests *)

BearerA == Hdr(<<"Bearer", " ", "tokA">>)
BearerB == Hdr(<<"Bearer", " ", "tokB">>)
GoodHeaders == {BearerA, BearerB}

\* headers that are missing, empty, or not of the form 'Bearer <token>',
\* and well-formed headers with a dead token
OtherHeaders ==
    {NoHeader, Hdr(<<>>), Hdr(<<"Bearer">>), Hdr(<<"tokA">>),
     Hdr(<<"Basic", " ", "tokA">>),
     Hdr(<<"Basic", " ", "dead">>), Hdr(<<"Bearer", " ", " ", "tokA">>),
     Hdr(<<"Bearer", " ", "tokB", " ", "x">>), Hdr(<<"Bearer", " ", "dead">>)}

WeightReq(H, W, D, U) == [header : H, weight : W, log_date : D, user_id : U]
ListReq(H, U, S, E) == [header : H, user_id : U, start_date : S, end_date : E]
ProfileReq(H, U) == [header : H, user_id : U]
UpdateReq(H, U, N, F, A) ==
    [header : H, user_id : U, username : N, full_name : F, avatar_url : A]
AvatarReq(H, U, F) == [header : H, user_id : U, file : F]
UsersReq(H, D) == [header : H, date : D]

----------------------------------------------------------------------------
(* The weight endpoints under concurrent callers *)

NextWeight ==
    \/ \E w \in Workers :
          \E req \in WeightReq(GoodHeaders, {Num(1), Num(999)},
                                {Absent, ShortDateStr(1), DateStr(2)}, {None, Bob.id}) :
             LogWeight(w, req)
    \/ \E w \in Workers, ok \in BOOLEAN : LogWeightUpsert(w, ok)
    \/ Send

SpecWeight == Init /\ [][NextWeight]_vars

(* The weight endpoints over the request bodies and queries *)

NextInput ==
    \/ \E req \in WeightReq({BearerA, NoHeader},
                             {Num(0 - 1), Num(0), Num(1), Num(999), Num(1000),
                              Num(1001), NaNLit, Text, Missing},
                             {Absent, DateStr(1), ShortDateStr(2), BadDateStr, EmptyStr},
                             {None}) :
          \E w \in Workers : LogWeight(w, req)
    \/ \E w \in Workers, ok \in BOOLEAN : LogWeightUpsert(w, ok)
    \/ Tick
    \/ Send

SpecInput == Init /\ [][NextInput]_vars

NextList ==
    \/ \E req \in WeightReq(GoodHeaders, {Num(70)},
                             {DateStr(1), ShortDateStr(2), DateStr(3)}, {None}) :
          \E w \in Workers : LogWeight(w, req)
    \/ \E w \in Workers : LogWeightUpsert(w, TRUE)
    \/ \E req \in ListReq({BearerA, NoHeader}, UserIds,
                           {Absent, EmptyStr, ShortDateStr(1), DateStr(2), BadDateStr},
                           {Absent, EmptyStr, DateStr(1), ShortDateStr(2), DateStr(3)}) :
          \E w \in Workers, ok \in BOOLEAN : GetWeightLogs(w, req, ok)
    \/ Send

SpecList == Init /\ [][NextList]_vars

(* The profile and avatar endpoints of one user under concurrent requests *)

Files ==
    {NoFile, UnnamedFile, File(None), File(<<"image/jpeg">>), File(<<"image/jpg">>),
     File(<<"image/png">>), File(<<"image/gif">>), File(<<"application/pdf">>)}

NextAvatar ==
    \/ \E w \in Workers, req \in ProfileReq({BearerA}, {Ann.id}), ok \in BOOLEAN :
          GetProfile(w, req, ok)
    \/ \E w \in Workers, ok \in BOOLEAN : GetProfileInsert(w, ok)
    \/ \E w \in Workers, ok \in BOOLEAN :
          \E req \in UpdateReq({BearerA}, {Ann.id}, {<<"neo">>}, {<<"Neo">>},
                                {None, <<"http://x/a.png">>}) :
             UpdateProfile(w, req, ok)
    \/ \E w \in Workers, req \in AvatarReq({BearerA}, {Ann.id}, Files), ok \in BOOLEAN :
          UploadAvatar(w, req, ok)
    \/ \E w \in Workers, ok \in BOOLEAN : UploadAvatarUpdate(w, ok)
    \/ Send

SpecAvatar == Init /\ [][NextAvatar]_vars

(* The profile and avatar endpoints across users *)

NextOwner ==
    \/ \E w \in Workers, req \in ProfileReq(GoodHeaders, UserIds), ok \in BOOLEAN :
          GetProfile(w, req, ok)
    \/ \E w \in Workers, ok \in BOOLEAN : GetProfileInsert(w, ok)
    \/ \E w \in Workers, ok \in BOOLEAN :
          \E req \in AvatarReq(GoodHeaders, UserIds, {File(<<"image/png">>)}) :
             UploadAvatar(w, req, ok)
    \/ \E w \in Workers, ok \in BOOLEAN : UploadAvatarUpdate(w, ok)
    \/ Send

SpecOwner == Init /\ [][NextOwner]_vars

(* The profile update across users and days *)

NextUpdate ==
    \/ \E req \in ProfileReq(GoodHeaders, UserIds), ok \in BOOLEAN :
          GetProfile("w1", req, ok)
    \/ \E ok \in BOOLEAN : GetProfileInsert("w1", ok)
    \/ \E req \in UpdateReq(GoodHeaders, UserIds, {None, <<"neo">>}, {None, <<"Neo">>},
                             {None, <<"http://x/a.png">>}) :
          \E w \in Workers, ok \in BOOLEAN : UpdateProfile(w, req, ok)
    \/ Tick
    \/ Send

SpecUpdate == Init /\ [][NextUpdate]_vars

(* Every protected route over the Authorization headers *)

AllHeaders == GoodHeaders \cup OtherHeaders

NextAuth ==
    \/ \E req \in ProfileReq(AllHeaders, {Ann.id}), ok \in BOOLEAN :
          GetProfile("w1", req, ok)
    \/ \E ok \in BOOLEAN : GetProfileInsert("w1", ok)
    \/ \E req \in UpdateReq(AllHeaders, {Ann.id}, {<<"neo">>}, {<<"Neo">>}, {None}) :
          \E ok \in BOOLEAN : UpdateProfile("w1", req, ok)
    \/ \E req \in AvatarReq(AllHeaders, {Ann.id}, {File(<<"image/png">>)}) :
          \E ok \in BOOLEAN : UploadAvatar("w1", req, ok)
    \/ \E ok \in BOOLEAN : UploadAvatarUpdate("w1", ok)
    \/ \E req \in WeightReq(AllHeaders, {Num(70)}, {Absent}, {None}) :
          LogWeight("w1", req)
    \/ \E ok \in BOOLEAN : LogWeightUpsert("w1", ok)
    \/ \E req \in ListReq(AllHeaders, {Ann.id}, {Absent}, {Absent}), ok \in BOOLEAN :
          GetWeightLogs("w1", req, ok)
    \/ \E req \in UsersReq(AllHeaders, {Absent, BadDateStr}), ok \in BOOLEAN :
          GetUsers("w1", req, ok)
    \/ \E ok \in BOOLEAN : GetUsersWeights("w1", ok)
    \/ Send

SpecAuth == Init /\ [][NextAuth]_vars

----------------------------------------------------------------------------
(* Properties *)

\* a handler of the route returns in this step
Returns(route) == resp = NoResp /\ resp'.route = route

\* the rows of weight_logs with the key (user_id, log_date)
RowsOf(key) == {x \in weight_logs : x.user_id = key[1] /\ x.log_date = key[2]}

\* C3, as claimed: an authenticated log_weight whose table call does not fail
\* succeeds for every weight with 0 < w < 1000 and is answered 400 for every
\* other weight, whatever the rest of the body is.
C3_AsClaimed ==
    (resp.route = "log_weight" /\ resp.caller # None /\ ~resp.faulted
        /\ resp.req.weight.kind = "num")
    => IF 0 < resp.req.weight.val /\ resp.req.weight.val < 1000
       THEN resp.status = 200
       ELSE resp.status = 400

\* C3, amended: when log_date is absent or a %Y-%m-%d date, an authenticated
\* log_weight whose table call does not fail upserts and returns the row for
\* every weight with 0 < w < 1000, and answers 400 and writes no row for every
\* other weight; when log_date is present and no such date the answer is 500
\* and no row is written, whatever the weight.
C3_WeightValidation ==
    [][(Returns("log_weight") /\ resp'.caller # None /\ ~resp'.faulted
          /\ resp'.req.weight.kind = "num")
       => LET val == resp'.req.weight.val
              parses == resp'.req.log_date.kind \in {"absent", "date"}
          IN  IF ~parses
              THEN resp'.status = 500 /\ weight_logs' = weight_logs
              ELSE IF 0 < val /\ val < 1000
              THEN /\ resp'.status = 200
                   /\ resp'.body \in weight_logs'
                   /\ resp'.body.weight = val
                   /\ resp'.body.user_id = resp'.caller
              ELSE resp'.status = 400 /\ weight_logs' = weight_logs]_vars

\* a weight of 1000 is refused after one of 999 was stored
C3_Witness ==
    /\ resp.route = "log_weight" /\ resp.status = 400
    /\ resp.req.weight = Num(1000) /\ resp.req.log_date = Absent
    /\ \E x \in weight_logs : x.weight = 999

\* C4: the table holds a row for a (user_id, log_date) exactly when a
\* log_weight upsert for it was applied, holds one row only, and that row's
\* weight is the weight of the upsert applied last.
C4_LastWriteWins ==
    \A key \in UserIds \X Days :
        IF applied[key] = 0
        THEN RowsOf(key) = {}
        ELSE /\ Cardinality(RowsOf(key)) = 1
             /\ \A x \in RowsOf(key) : x.weight = applied[key]

\* a submission replaced the row of an earlier one for the same key and
\* another weight, while a third for that key is in flight
C4_Witness ==
    /\ resp.route = "log_weight" /\ resp.status = 200
    /\ \E x \in resp.replaced : x.weight # resp.body.weight
    /\ \E w \in Workers :
          pc[w] = "lw_upsert" /\ SameKey(WeightRow(local[w].data), resp.body)

\* C8: a get_weight_logs for user_id U that the table answers returns the
\* rows of U whose log_date lies within the bounds given, both inclusive,
\* each once, in descending order of log_date, and nothing else.
C8_RangeDescending ==
    (resp.route = "get_weight_logs" /\ resp.caller # None /\ ~resp.faulted
        /\ resp.req.start_date.kind # "bad" /\ resp.req.end_date.kind # "bad")
    => LET r == resp.req
           inRange(x) ==
               /\ r.start_date.kind = "date" => r.start_date.d <= x.log_date
               /\ r.end_date.kind = "date" => x.log_date <= r.end_date.d
           expected == {x \in weight_logs : x.user_id = r.user_id /\ inRange(x)}
           body == resp.body
       IN  /\ resp.status = 200
           /\ {body[i] : i \in 1 .. Len(body)} = expected
           /\ Len(body) = Cardinality(expected)
           /\ \A i \in 1 .. Len(body) : \A j \in 1 .. Len(body) :
                 i < j => body[i].log_date >= body[j].log_date

\* two of a user's three rows are returned, latest first, to another user
C8_Witness ==
    /\ resp.route = "get_weight_logs" /\ resp.status = 200
    /\ resp.req.start_date = DateStr(2) /\ resp.req.end_date = DateStr(3)
    /\ resp.req.user_id = Bob.id /\ resp.caller = Ann.id
    /\ Cardinality(RowsOf(<<Bob.id, 1>>)) = 1
    /\ Cardinality(RowsOf(<<Ann.id, 2>>)) = 1
    /\ Len(resp.body) = 2
    /\ resp.body[1].log_date = 3 /\ resp.body[2].log_date = 2

\* C10: every weight_logs row of a user was written by requests authenticated
\* as that user only, whatever user_id the request body carried.
C10_RowsOfCaller ==
    /\ \A key \in UserIds \X Days : writers[key] \subseteq {key[1]}
    /\ \A x \in weight_logs : writers[<<x.user_id, x.log_date>>] = {x.user_id}

\* Ann's request naming Bob in its body wrote a row of Ann, next to Bob's
C10_Witness ==
    /\ resp.route = "log_weight" /\ resp.status = 200
    /\ resp.caller = Ann.id /\ resp.req.user_id = Bob.id
    /\ resp.body.user_id = Ann.id
    /\ \E x \in weight_logs : x.user_id = Bob.id

Protected ==
    {"get_profile", "update_profile", "upload_avatar", "log_weight",
     "get_weight_logs", "get_users"}

\* the header is of the form 'Bearer <token>'
WellFormed(h) ==
    /\ h.present
    /\ LET parts == Split(h.text, " ")
       IN  Len(parts) = 2 /\ parts[1] = <<"Bearer">> /\ parts[2] # <<>>

\* C1: a request to a protected route whose Authorization header is missing
\* or not of the form 'Bearer <token>' is answered 401 and no call of the
\* client, client.auth.get_user included, is made for it.
C1_AsClaimed ==
    (resp.route \in Protected /\ ~WellFormed(resp.req.header))
    => resp.status = 401 /\ resp.calls = {}

\* C2: get_profile and upload_avatar answer an authenticated caller whose id
\* is not the path's user_id with 403, without a call on the profiles table
\* or the avatars bucket and with both unchanged.
C2_ForeignForbidden ==
    [][((Returns("get_profile") \/ Returns("upload_avatar"))
          /\ resp'.caller # None /\ resp'.caller # resp'.req.user_id)
       => /\ resp'.status = 403
          /\ resp'.calls \subseteq {"auth.get_user"}
          /\ profiles' = profiles
          /\ avatars' = avatars]_vars

\* Bob is refused the avatar upload for Ann, whose row and object exist
C2_Witness ==
    /\ resp.route = "upload_avatar" /\ resp.status = 403
    /\ resp.caller = Bob.id /\ resp.req.user_id = Ann.id
    /\ EqId(profiles, Ann.id) # {}
    /\ avatars # {}

\* C5: whenever no avatar upload of a user is in progress, the user's profile
\* row names the public URL of the object the user uploaded last.
C5_AsClaimed ==
    \A u \in UserIds :
        (/\ lastUpload[u] # None
         /\ \A w \in Workers : ~(pc[w] = "ua_update" /\ local[w].req.user_id = u))
        => \E x \in profiles :
              x.id = u /\ x.avatar_url = get_public_url(lastUpload[u])

\* the part of an email before its first '@'
LocalPart(email) ==
    LET n == CHOOSE k \in 0 .. Len(email) :
                 /\ \A i \in 1 .. k : email[i] # "@"
                 /\ k = Len(email) \/ email[k + 1] = "@"
    IN  SubSeq(email, 1, n)

\* C6: a get_profile of one's own id that the table does not fail returns
\* the one row of that id, which it created with the email's local part as
\* username when its select found none.
C6_AsClaimed ==
    (resp.route = "get_profile" /\ resp.caller = resp.req.user_id /\ ~resp.faulted)
    => /\ resp.status = 200
       /\ Cardinality(EqId(profiles, resp.caller)) = 1
       /\ resp.body.id = resp.caller
       /\ "profiles.insert" \in resp.calls =>
             \E u \in Identities :
                 u.id = resp.caller /\ resp.body.username = LocalPart(u.email)

\* C7: an owner's upload_avatar whose file declares a content type other than
\* image/jpeg, image/jpg and image/png is answered 400, with no upload and no
\* profile update issued and both stores unchanged.
C7_UnsupportedType ==
    [][(/\ Returns("upload_avatar")
        /\ resp'.caller = resp'.req.user_id
        /\ resp'.req.file.given /\ ~Falsy(resp'.req.file.filename)
        /\ ~Falsy(resp'.req.file.content_type)
        /\ resp'.req.file.content_type
              \notin {<<"image/jpeg">>, <<"image/jpg">>, <<"image/png">>})
       => /\ resp'.status = 400
          /\ resp'.calls \cap {"avatars.upload", "profiles.update"} = {}
          /\ avatars' = avatars
          /\ profiles' = profiles]_vars

\* a GIF is refused while the user's row and an earlier object exist
C7_Witness ==
    /\ resp.route = "upload_avatar" /\ resp.status = 400
    /\ resp.req.file = File(<<"image/gif">>)
    /\ resp.caller = resp.req.user_id
    /\ EqId(profiles, resp.caller) # {}
    /\ avatars # {}

\* C9: update_profile never answers an authenticated caller with 403, and
\* when the table does not fail it leaves exactly one row with the path's
\* user_id, holding the body's username, full_name and avatar_url and the
\* current time, whoever the caller is; the other rows are unchanged.
C9_NoOwnershipCheck ==
    [][(Returns("update_profile") /\ resp'.caller # None)
       => /\ resp'.status # 403
          /\ ~resp'.faulted =>
                /\ resp'.status = 200
                /\ Cardinality(EqId(profiles', resp'.req.user_id)) = 1
                /\ \A x \in EqId(profiles', resp'.req.user_id) :
                      /\ x.username = resp'.req.username
                      /\ x.full_name = resp'.req.full_name
                      /\ x.avatar_url = resp'.req.avatar_url
                      /\ x.updated_at = clock
                /\ resp'.body = EqId(profiles', resp'.req.user_id)
                /\ \A x \in profiles : x.id # resp'.req.user_id => x \in profiles']_vars

\* Bob overwrote, on day 2, the row Ann's own fetch had created
C9_Witness ==
    /\ resp.route = "update_profile" /\ resp.status = 200
    /\ resp.caller = Bob.id /\ resp.req.user_id = Ann.id
    /\ \E x \in profiles :
          /\ x.id = Ann.id /\ x.email = Ann.email
          /\ x.username = <<"neo">> /\ x.updated_at = 2

====
